---- MODULE Spec2Model ----
(***************************************************************************)
(* Marketing-site data loaders of course_discovery                         *)
(* (course_metadata/data_loaders/marketing_site.py).                       *)
(*                                                                         *)
(* Spec        : AbstractMarketingSiteDataLoader -- login, paging, the     *)
(*               thread pool and the per-node isolation of                 *)
(*               _process_response, with process_node abstract as it is    *)
(*               in the base class.                                        *)
(* SpecFair    : Spec with every request answered and every thread kept    *)
(*               running, for the termination of ingest().                 *)
(* SpecCatalog : CourseMarketingSiteDataLoader.process_node applied to a   *)
(*               catalog of Course / CourseRun rows.                       *)
(* SpecSchedule: create_course_run's start and weeks_to_complete over     *)
(*               every kind of schedule fields.                            *)
(* SpecPerson, SpecXSeries, SpecSchool : process_node of the person,       *)
(*               xseries and school loaders.                               *)
(* SpecPipeline: the six loaders' process_node against one catalog.        *)
(***************************************************************************)
EXTENDS Integers, Sequences, FiniteSets, TLC

(***************************************************************************)
(* Bounds of the model.                                                    *)
(***************************************************************************)
MaxPage == 3        \* page numbers carried by the first/last links: 0..MaxPage
MaxWorkers == 2     \* largest max_workers of the ThreadPoolExecutor
MaxLogins == 2      \* login POSTs one loader instance sends
MaxDay == 30        \* latest course date, in days after the epoch
MaxWeeks == 2       \* largest explicit field_course_required_weeks

HTTP_OK == 200      \* the only status _check_status_code accepts
HTTP_ERROR == 500   \* a representative of every other status

Pages == 0 .. MaxPage
Statuses == {HTTP_OK, HTTP_ERROR}

\* Threads.  Main is the thread that calls ingest().  Pool workers are
\* interchangeable, so a worker is named by the page of the work item it is
\* running: thread p is "the worker running the work item of page p".
Main == MaxPage + 1
Threads == Pages \cup {Main}

\* A node of data['list'] as _process_response sees it:
\*   "ok"    has a 'url', process_node returns
\*   "bad"   has a 'url', process_node (or clean_strings) raises
\*   "nourl" has no 'url' key, so node['url'] raises KeyError
\* The list is read front to back and nothing else reads it, so the model
\* draws each node when the loop of line 121 reaches it, and the list ends
\* when the loop is told so: lists of every length are covered.
NodeKinds == {"ok", "bad", "nourl"}

NoExc == [kind |-> "none", page |-> 0, status |-> 0]
LoginFailed == [kind |-> "login", page |-> 0, status |-> 0]
StatusError(page, status) == [kind |-> "status", page |-> page, status |-> status]
UnboundLocalError(page) == [kind |-> "unbound", page |-> page, status |-> 0]

VARIABLES
    \* ---- AbstractMarketingSiteDataLoader instance ----
    is_threadsafe,   \* constructor argument
    max_workers,     \* constructor argument
    api_client,      \* the cached_property slot: 0 = not computed, else the Session
    \* ---- upstream traffic ----
    loginPosts,      \* login POSTs sent so far (= Session objects created)
    loginOks,        \* login POSTs that passed the check of line 52
    login_response,  \* history: the answer to the login POST of this run
    getSessions,     \* the Session objects page GETs were sent on
    \* ---- ingest() ----
    ipc,             \* position of the calling thread inside ingest()
    has_next,        \* 'next' in data (line 71)
    first_page,      \* _extract_page(data['first'])
    last_page,       \* _extract_page(data['last'])
    pages_lo,        \* pagerange = range(pages_lo, pages_hi)
    pages_hi,
    sub,             \* next page the submission loop submits
    aw,              \* number of futures the result loop has taken
    ierr,            \* exception ingest() is raising
    \* ---- ThreadPoolExecutor ----
    queue,           \* work items not yet taken by a worker, FIFO
    fut,             \* page -> future submitted for it
    \* ---- threads inside _request / _process_response ----
    th,
    \* ---- history of the current run ----
    requested,       \* page -> GETs sent for it
    received,        \* page -> status of the response the calling thread got, 0 if none
    overtaken,       \* a response reached its future before that of an earlier page
    procStarted,     \* pages in the order the calling thread entered _process_response
    procDone,        \* page -> times _process_response returned for it
    \* ---- catalog (SpecCatalog): tables, a row's id is its index ----
    organizations,   \* Organization rows
    subjects,        \* Subject rows
    people,          \* Person rows
    positions,       \* Position rows
    programs,        \* Program rows
    courses,         \* Course rows
    course_source,   \* history: per Course row, the source status of the
                     \* node its fields were written from
    course_runs,     \* CourseRun rows
    level_types,     \* names of the LevelType rows
    last_pass,       \* the process_node call that ran last
    schedule         \* (SpecSchedule) the schedule fields of a course node
                     \* and what create_course_run stores for them

pagerVars == <<is_threadsafe, max_workers, api_client, loginPosts, loginOks,
               login_response, getSessions,
               ipc, has_next, first_page, last_page, pages_lo, pages_hi, sub, aw,
               ierr, queue, fut, th, requested, received, overtaken, procStarted, procDone>>
catalogVars == <<organizations, subjects, people, positions, programs, courses, course_source,
                 course_runs, level_types, last_pass, schedule>>
vars == <<pagerVars, catalogVars>>

\* pc: position inside _request / _process_response; page, status: the page
\* requested and the status of its response; session: the Session in use;
\* url_bound: whether the local url of _process_response is bound.
IdleThread == [pc |-> "idle", page |-> 0, status |-> 0, session |-> 0,
               url_bound |-> FALSE]
NoFuture == [st |-> "none", status |-> 0, exc |-> NoExc]
\* No login POST has been answered in this run.
NoLoginResponse == [status |-> 0, url_ok |-> FALSE]
ZeroPerPage == [p \in Pages |-> 0]

(***************************************************************************)
(* Pure pieces of AbstractMarketingSiteDataLoader.                         *)
(***************************************************************************)

\* Only the status is looked at, not where the POST ended.
LoginSucceededStatusOnly(status, url_ok) == status = HTTP_OK
\* api_client, line 52: the login passed iff the POST was answered 200 and
\* ended at {root}/users/{username}.
LoginSucceeded(status, url_ok) == status = HTTP_OK /\ url_ok

\* A plain property instead of cached_property: nothing is stored.
CachedValueDropped(session) == 0
\* cached_property, line 36: the value the getter returns is stored on the
\* instance and returned from then on.
CachedValue(session) == session

StatusOkAlways(status) == TRUE
\* _check_status_code, line 104.
StatusOk(status) == status = HTTP_OK

PageRangeLoNoSkip(first) == first
\* ingest, line 74: _extract_page(data['first']) + 1.
PageRangeLo(first) == first + 1
\* ingest, line 74: _extract_page(data['last']) + 1.
PageRangeHi(lastp) == lastp + 1

SubmitsLoadDataAlways == TRUE
\* ingest, line 78: the branch that submits _load_data instead of _request.
SubmitsLoadData == is_threadsafe

\* Taking whichever future is done (as_completed) instead of the next one.
AwaitedPageAny(k) ==
    LET ready == {p \in Pages : fut[p].st = "done" /\ received[p] = 0}
    IN  IF ready # {} THEN CHOOSE p \in ready : \A q \in ready : q <= p
        ELSE pages_lo + k
\* ingest, lines 82-83: the futures are taken in the order of the list the
\* comprehension built, which is the order of pagerange.
AwaitedPage(k) == pages_lo + k

(***************************************************************************)
(* Control transfer.  Each of these sets ipc, ierr, fut and th.            *)
(***************************************************************************)

\* An exception leaves the call running on thread t.  On the calling thread
\* it propagates out of ingest() (through the with-block's exit when the
\* pool is open); on a pool worker the executor stores it in the future.
Raises(t, exc) ==
    IF t = Main
    THEN /\ ipc' = IF ipc \in {"await", "l84"} THEN "exit" ELSE "raised"
         /\ ierr' = exc
         /\ th' = [th EXCEPT ![t] = IdleThread]
         /\ UNCHANGED fut
    ELSE /\ fut' = [fut EXCEPT ![t] = [st |-> "done", status |-> 0, exc |-> exc]]
         /\ th' = [th EXCEPT ![t] = IdleThread]
         /\ UNCHANGED <<ipc, ierr>>

\* _process_response(response) is entered on thread t (line 68, 84 or 89):
\* _check_status_code (lines 101-108) raises unless the status is 200, then
\* data = response.json() (line 120) and the loop starts.
EnterProcessResponse(t, page, status) ==
    /\ procStarted' = IF t = Main THEN Append(procStarted, page) ELSE procStarted
    /\ IF StatusOk(status)
       THEN /\ th' = [th EXCEPT ![t] = [IdleThread EXCEPT !.pc = "node", !.page = page,
                                                         !.status = status]]
            /\ ipc' = IF t # Main THEN ipc ELSE IF ipc = "l67" THEN "l68" ELSE "l84"
            /\ UNCHANGED <<ierr, fut>>
       ELSE Raises(t, StatusError(page, status))

\* self._request(page) starts on thread t (lines 91-99), sent being the GETs
\* of this run so far: self.api_client is read.  A cached Session gets the GET at once; with nothing cached the
\* getter runs: a new Session is made and the login form is posted
\* (lines 48-50).
StartRequest(t, page, sent) ==
    IF api_client # 0
    THEN /\ th' = [th EXCEPT ![t] = [IdleThread EXCEPT !.pc = "get", !.page = page,
                                                      !.session = api_client]]
         /\ requested' = [sent EXCEPT ![page] = @ + 1]
         /\ getSessions' = getSessions \cup {api_client}
         /\ UNCHANGED loginPosts
    ELSE /\ loginPosts < MaxLogins
         /\ th' = [th EXCEPT ![t] = [IdleThread EXCEPT !.pc = "login", !.page = page,
                                                      !.session = loginPosts + 1]]
         /\ loginPosts' = loginPosts + 1
         /\ requested' = sent
         /\ UNCHANGED getSessions

(***************************************************************************)
(* api_client (lines 36-55) and _request (lines 91-99), on any thread.     *)
(***************************************************************************)

\* The login POST is answered and passes the check of line 52: the Session
\* is returned, cached_property stores it, and _request sends its GET on it
\* (line 99).
LoginAccepted(t) ==
    /\ th[t].pc = "login"
    /\ \E status \in Statuses, url_ok \in BOOLEAN :
          /\ LoginSucceeded(status, url_ok)
          /\ login_response' = [status |-> status, url_ok |-> url_ok]
    /\ api_client' = CachedValue(th[t].session)
    /\ loginOks' = loginOks + 1
    /\ th' = [th EXCEPT ![t].pc = "get"]
    /\ requested' = [requested EXCEPT ![th[t].page] = @ + 1]
    /\ getSessions' = getSessions \cup {th[t].session}
    /\ UNCHANGED <<is_threadsafe, max_workers, loginPosts, ipc, has_next, first_page,
                   last_page, pages_lo, pages_hi, sub, aw, ierr, queue, fut, received,
                   overtaken, procStarted, procDone, catalogVars>>

\* The login POST is answered and fails the check: 'Login failed!' (line 53).
\* cached_property stores nothing when the getter raises.
LoginRejected(t) ==
    /\ th[t].pc = "login"
    /\ \E status \in Statuses, url_ok \in BOOLEAN :
          /\ ~LoginSucceeded(status, url_ok)
          /\ login_response' = [status |-> status, url_ok |-> url_ok]
    /\ Raises(t, LoginFailed)
    /\ UNCHANGED <<is_threadsafe, max_workers, api_client, loginPosts, loginOks, getSessions,
                   has_next, first_page, last_page, pages_lo, pages_hi, sub, aw,
                   queue, requested, received, overtaken, procStarted, procDone, catalogVars>>

\* The page GET is answered and _request returns the response.  On the
\* calling thread (line 67) and in _load_data (lines 88-89) the response goes
\* straight to _process_response; a worker running _request alone (line 82)
\* leaves it in its future.
GetResponse(t) ==
    /\ th[t].pc = "get"
    /\ \E status \in Statuses :
          IF t = Main
          THEN /\ received' = [received EXCEPT ![th[t].page] = status]
               /\ EnterProcessResponse(t, th[t].page, status)
               /\ UNCHANGED overtaken
          ELSE IF SubmitsLoadData
          THEN /\ EnterProcessResponse(t, th[t].page, status)
               /\ UNCHANGED <<received, overtaken>>
          ELSE /\ fut' = [fut EXCEPT ![t] = [st |-> "done", status |-> status, exc |-> NoExc]]
               /\ overtaken' = (overtaken \/ \E q \in Pages :
                                   q < t /\ fut[q].st \in {"queued", "running"})
               /\ th' = [th EXCEPT ![t] = IdleThread]
               /\ UNCHANGED <<ipc, ierr, received, procStarted>>
    /\ UNCHANGED <<is_threadsafe, max_workers, api_client, loginPosts, loginOks, login_response,
                   getSessions,
                   has_next, first_page, last_page, pages_lo, pages_hi, sub, aw,
                   queue, requested, procDone, catalogVars>>

(***************************************************************************)
(* The loop of _process_response (lines 121-127), on any thread.           *)
(***************************************************************************)

\* The loop is exhausted: _process_response returns.  The calling thread
\* goes on in ingest (line 70, or the next future of line 82); a worker's
\* _load_data returns and its future is done.
NodeLoopEnd(t) ==
    /\ th[t].pc = "node"
    /\ procDone' = [procDone EXCEPT ![th[t].page] = @ + 1]
    /\ th' = [th EXCEPT ![t] = IdleThread]
    /\ IF t = Main
       THEN /\ ipc' = IF ipc = "l68" THEN "l70" ELSE "await"
            /\ aw' = IF ipc = "l68" THEN aw ELSE aw + 1
            /\ UNCHANGED fut
       ELSE /\ fut' = [fut EXCEPT ![t] = [st |-> "done", status |-> 0, exc |-> NoExc]]
            /\ UNCHANGED <<ipc, aw>>
    /\ UNCHANGED <<is_threadsafe, max_workers, api_client, loginPosts, loginOks, login_response,
                   getSessions,
                   has_next, first_page, last_page, pages_lo, pages_hi, sub, ierr,
                   queue, requested, received, overtaken, procStarted, catalogVars>>

\* The next node has no 'url': url = node['url'] raises KeyError (line 123).
\* The handler of line 127 reads the local url.  It holds the url of an
\* earlier node of this call if one was bound; if none was, the read raises
\* UnboundLocalError out of the handler and out of _process_response.
NodeWithoutUrl(t) ==
    /\ th[t].pc = "node"
    /\ IF th[t].url_bound
       THEN UNCHANGED <<ipc, ierr, fut, th>>
       ELSE Raises(t, UnboundLocalError(th[t].page))
    /\ UNCHANGED <<is_threadsafe, max_workers, api_client, loginPosts, loginOks, login_response,
                   getSessions,
                   has_next, first_page, last_page, pages_lo, pages_hi, sub, aw,
                   queue, requested, received, overtaken, procStarted, procDone, catalogVars>>

\* The next node has a 'url': url is bound (line 123) and process_node is
\* entered (lines 124-125).
NodeDispatch(t) ==
    /\ th[t].pc = "node"
    /\ th' = [th EXCEPT ![t].pc = "pnode", ![t].url_bound = TRUE]
    /\ UNCHANGED <<is_threadsafe, max_workers, api_client, loginPosts, loginOks, login_response,
                   getSessions,
                   ipc, has_next, first_page, last_page, pages_lo, pages_hi, sub, aw,
                   ierr, queue, fut, requested, received, overtaken, procStarted, procDone,
                   catalogVars>>

\* process_node (abstract, line 136) returns (an "ok" node), or raises and
\* the bare except of lines 126-127 logs it (a "bad" node): either way the
\* loop goes on to the next node.
ProcessNodeEnds(t) ==
    /\ th[t].pc = "pnode"
    /\ \E kind \in NodeKinds \ {"nourl"} : th' = [th EXCEPT ![t].pc = "node"]
    /\ UNCHANGED <<is_threadsafe, max_workers, api_client, loginPosts, loginOks, login_response,
                   getSessions,
                   ipc, has_next, first_page, last_page, pages_lo, pages_hi, sub, aw,
                   ierr, queue, fut, requested, received, overtaken, procStarted, procDone,
                   catalogVars>>

(***************************************************************************)
(* ingest (lines 64-84) on the calling thread, and the pool.               *)
(***************************************************************************)

\* ingest() is called, for the first time or again after it returned or
\* raised: response = self._request(initial_page) (lines 66-67).
IngestCall ==
    /\ ipc \in {"idle", "returned", "raised"}
    /\ api_client # 0 \/ loginPosts < MaxLogins
    /\ ipc' = "l67"
    /\ StartRequest(Main, 0, ZeroPerPage)
    /\ has_next' = FALSE /\ first_page' = 0 /\ last_page' = 0
    /\ pages_lo' = 0 /\ pages_hi' = 0
    /\ sub' = 0 /\ aw' = 0
    /\ ierr' = NoExc
    /\ queue' = <<>>
    /\ fut' = [p \in Pages |-> NoFuture]
    /\ received' = ZeroPerPage /\ procDone' = ZeroPerPage
    /\ overtaken' = FALSE /\ procStarted' = <<>>
    /\ login_response' = NoLoginResponse
    /\ UNCHANGED <<is_threadsafe, max_workers, api_client, loginOks, catalogVars>>

\* data = response.json() has no 'next' (lines 70-71): ingest returns.
NoNextPage ==
    /\ ipc = "l70"
    /\ ipc' = "returned"
    /\ UNCHANGED <<is_threadsafe, max_workers, api_client, loginPosts, loginOks, login_response,
                   getSessions,
                   has_next, first_page, last_page, pages_lo, pages_hi, sub, aw, ierr,
                   queue, fut, th, requested, received, overtaken, procStarted, procDone,
                   catalogVars>>

\* 'next' is there: pagerange is built from the first and last links
\* (lines 74-75) and the pool is opened (line 77).
ReadPagination ==
    /\ ipc = "l70"
    /\ \E f \in Pages, l \in Pages :
          /\ first_page' = f
          /\ last_page' = l
          /\ pages_lo' = PageRangeLo(f)
          /\ pages_hi' = PageRangeHi(l)
          /\ sub' = PageRangeLo(f)
    /\ has_next' = TRUE
    /\ ipc' = "submit"
    /\ UNCHANGED <<is_threadsafe, max_workers, api_client, loginPosts, loginOks, login_response,
                   getSessions,
                   aw, ierr, queue, fut, th, requested, received, overtaken,
                   procStarted, procDone, catalogVars>>

\* executor.submit(...) for the next page of pagerange (line 80 or 82).
Submit ==
    /\ ipc = "submit"
    /\ sub < pages_hi
    /\ queue' = Append(queue, sub)
    /\ fut' = [fut EXCEPT ![sub] = [st |-> "queued", status |-> 0, exc |-> NoExc]]
    /\ sub' = sub + 1
    /\ UNCHANGED <<is_threadsafe, max_workers, api_client, loginPosts, loginOks, login_response,
                   getSessions,
                   ipc, has_next, first_page, last_page, pages_lo, pages_hi, aw, ierr,
                   th, requested, received, overtaken, procStarted, procDone, catalogVars>>

\* Every page is submitted.  With _load_data submitted nothing reads the
\* futures and the with-block ends (lines 79-80); otherwise the result loop
\* of lines 82-84 starts.
SubmitDone ==
    /\ ipc = "submit"
    /\ sub >= pages_hi
    /\ ipc' = IF SubmitsLoadData THEN "exit" ELSE "await"
    /\ UNCHANGED <<is_threadsafe, max_workers, api_client, loginPosts, loginOks, login_response,
                   getSessions,
                   has_next, first_page, last_page, pages_lo, pages_hi, sub, aw, ierr,
                   queue, fut, th, requested, received, overtaken, procStarted, procDone,
                   catalogVars>>

\* response = future.result() (line 83) on the next future: it blocks until
\* the future is done, then re-raises the exception the future holds or
\* hands the response to _process_response (line 84).
AwaitResult ==
    /\ ipc = "await"
    /\ aw < pages_hi - pages_lo
    /\ LET p == AwaitedPage(aw) IN
          /\ fut[p].st = "done"
          /\ IF fut[p].exc # NoExc
             THEN /\ ierr' = fut[p].exc
                  /\ ipc' = "exit"
                  /\ UNCHANGED <<fut, th, received, procStarted>>
             ELSE /\ received' = [received EXCEPT ![p] = fut[p].status]
                  /\ EnterProcessResponse(Main, p, fut[p].status)
    /\ UNCHANGED <<is_threadsafe, max_workers, api_client, loginPosts, loginOks, login_response,
                   getSessions,
                   has_next, first_page, last_page, pages_lo, pages_hi, sub, aw,
                   queue, requested, overtaken, procDone, catalogVars>>

\* The result loop is exhausted.
AwaitDone ==
    /\ ipc = "await"
    /\ aw >= pages_hi - pages_lo
    /\ ipc' = "exit"
    /\ UNCHANGED <<is_threadsafe, max_workers, api_client, loginPosts, loginOks, login_response,
                   getSessions,
                   has_next, first_page, last_page, pages_lo, pages_hi, sub, aw, ierr,
                   queue, fut, th, requested, received, overtaken, procStarted, procDone,
                   catalogVars>>

\* shutdown(wait=False): the with-block ends without waiting for the workers.
PoolDrainedNoWait == TRUE
\* ThreadPoolExecutor.__exit__ (the with of line 77) is shutdown(wait=True):
\* it returns once no work item is queued or running.  Nothing cancels a
\* queued work item.
PoolDrained ==
    /\ queue = <<>>
    /\ \A p \in Pages : fut[p].st # "running"

\* The with-block of line 77 ends once every submitted work item has run;
\* then ingest returns, or the exception in flight goes on.
ExitPool ==
    /\ ipc = "exit"
    /\ PoolDrained
    /\ ipc' = IF ierr = NoExc THEN "returned" ELSE "raised"
    /\ UNCHANGED <<is_threadsafe, max_workers, api_client, loginPosts, loginOks, login_response,
                   getSessions,
                   has_next, first_page, last_page, pages_lo, pages_hi, sub, aw, ierr,
                   queue, fut, th, requested, received, overtaken, procStarted, procDone,
                   catalogVars>>

\* A free pool worker takes the oldest work item and starts _request(page)
\* (the work item itself, line 82, or the first line of _load_data, line 88).
TakeWork ==
    /\ queue # <<>>
    /\ Cardinality({p \in Pages : fut[p].st = "running"}) < max_workers
    /\ fut' = [fut EXCEPT ![Head(queue)].st = "running"]
    /\ StartRequest(Head(queue), Head(queue), requested)
    /\ queue' = Tail(queue)
    /\ UNCHANGED <<is_threadsafe, max_workers, api_client, loginOks, login_response, ipc, has_next,
                   first_page, last_page, pages_lo, pages_hi, sub, aw, ierr, received,
                   overtaken, procStarted, procDone, catalogVars>>

(***************************************************************************)
(* The loader as a whole.                                                  *)
(***************************************************************************)

\* No schedule is being looked at.
NoSchedule == [done |-> TRUE]

\* No loader has touched the catalog.
CatalogIdle ==
    /\ organizations = <<>>
    /\ subjects = <<>>
    /\ people = <<>>
    /\ positions = <<>>
    /\ programs = <<>>
    /\ courses = <<>>
    /\ course_source = <<>>
    /\ course_runs = <<>>
    /\ level_types = {}
    /\ last_pass = [kind |-> "none"]
    /\ schedule = NoSchedule

\* The instance after __init__ (lines 26-34), before ingest() is called.
Init ==
    /\ is_threadsafe \in BOOLEAN
    /\ max_workers \in 1 .. MaxWorkers
    /\ api_client = 0
    /\ loginPosts = 0 /\ loginOks = 0
    /\ login_response = NoLoginResponse
    /\ getSessions = {}
    /\ ipc = "idle"
    /\ has_next = FALSE /\ first_page = 0 /\ last_page = 0
    /\ pages_lo = 0 /\ pages_hi = 0
    /\ sub = 0 /\ aw = 0
    /\ ierr = NoExc
    /\ queue = <<>>
    /\ fut = [p \in Pages |-> NoFuture]
    /\ th = [t \in Threads |-> IdleThread]
    /\ requested = ZeroPerPage /\ received = ZeroPerPage
    /\ procDone = ZeroPerPage
    /\ overtaken = FALSE /\ procStarted = <<>>
    /\ CatalogIdle

Next ==
    \/ IngestCall
    \/ \E t \in Threads : LoginAccepted(t)
    \/ \E t \in Threads : LoginRejected(t)
    \/ \E t \in Threads : GetResponse(t)
    \/ \E t \in Threads : NodeLoopEnd(t)
    \/ \E t \in Threads : NodeWithoutUrl(t)
    \/ \E t \in Threads : NodeDispatch(t)
    \/ \E t \in Threads : ProcessNodeEnds(t)
    \/ NoNextPage
    \/ ReadPagination
    \/ Submit
    \/ SubmitDone
    \/ AwaitResult
    \/ AwaitDone
    \/ ExitPool
    \/ TakeWork

Spec == Init /\ [][Next]_vars

\* What keeps a run of ingest() moving: every HTTP request is answered
\* (login POST and page GET), process_node comes back, the node list of a
\* response is finite, the calling thread goes on to its next statement,
\* and a free pool worker takes the next work item.  Nothing obliges anyone
\* to call ingest().
Fairness ==
    /\ \A t \in Threads : WF_vars(LoginAccepted(t) \/ LoginRejected(t))
    /\ \A t \in Threads : WF_vars(GetResponse(t))
    /\ \A t \in Threads : WF_vars(ProcessNodeEnds(t))
    /\ \A t \in Threads : SF_vars(NodeLoopEnd(t))
    /\ WF_vars(NoNextPage \/ ReadPagination)
    /\ WF_vars(Submit)
    /\ WF_vars(SubmitDone)
    /\ WF_vars(AwaitResult)
    /\ WF_vars(AwaitDone)
    /\ WF_vars(ExitPool)
    /\ WF_vars(TakeWork)

SpecFair == Init /\ [][Next]_vars /\ Fairness


(***************************************************************************)
(* Properties of the pager (checked under Spec).                           *)
(***************************************************************************)

Finished == ipc \in {"returned", "raised"}
PoolExceptions == {fut[p].exc : p \in Pages} \ {NoExc}
InProcessResponse == {t \in Threads : th[t].pc \in {"node", "pnode"}}
\* The pages one run of ingest() is to fetch: page 0 and pagerange.
InRun(p) == p = 0 \/ (has_next /\ first_page + 1 <= p /\ p <= last_page)

\* C3 -- As claimed: a _process_response call that got past the status check
\* (a status-200 page) never ends in an exception, wherever the failing node
\* stands in the list and whether or not it has a 'url': no UnboundLocalError
\* reaches ingest() or a future.
C3_NodeFailureIsolated ==
    /\ ierr.kind # "unbound"
    /\ \A p \in Pages : fut[p].exc.kind # "unbound"

\* C4 -- Fetch-only mode: the calling thread never runs the node loop on a
\* response whose status is not 200, and once it has been handed such a
\* response for page k ingest() is raising the error that carries k's URL
\* and status, page k and every later page are unprocessed (and no later
\* response was even taken), and every earlier page of the run stays
\* processed.
C4_StatusAbort ==
    ~is_threadsafe =>
        /\ th[Main].pc \in {"node", "pnode"} => th[Main].status = HTTP_OK
        /\ \A k \in Pages :
              received[k] \notin {0, HTTP_OK} =>
                  /\ ipc \in {"exit", "raised"}
                  /\ ierr = StatusError(k, received[k])
                  /\ th[Main].pc = "idle"
                  /\ \A q \in Pages : q >= k => procDone[q] = 0
                  /\ \A q \in Pages : q > k => received[q] = 0
                  /\ \A q \in Pages : q < k /\ InRun(q) => procDone[q] = 1
C4_Witness ==
    /\ ~is_threadsafe
    /\ ipc = "raised"
    /\ \E k \in Pages : k >= 2 /\ received[k] = HTTP_ERROR /\ procDone[k - 1] = 1

\* C5 -- As claimed: in processing-in-worker mode ingest() does not return
\* normally when a page-level future ended in an exception (a non-200 page
\* or anything else raised in the worker).
C5_WorkerErrorAborts ==
    (is_threadsafe /\ ipc = "returned") => PoolExceptions = {}

\* C6 -- No page is requested twice; no page of pagerange is submitted before
\* page 0 has been processed; and when ingest() has returned with nothing
\* having failed, for a first response carrying 'next' with first <= last,
\* the pages requested and processed are page 0 and first+1 .. last, each
\* exactly once, and no other.
C6_PageSet ==
    /\ \A p \in Pages : requested[p] <= 1 /\ procDone[p] <= 1
    /\ (\E p \in Pages : fut[p].st # "none") => procDone[0] = 1
    /\ (ipc = "returned" /\ PoolExceptions = {} /\ has_next /\ first_page <= last_page) =>
          \A p \in Pages :
              /\ requested[p] = IF InRun(p) THEN 1 ELSE 0
              /\ procDone[p] = IF InRun(p) THEN 1 ELSE 0
C6_Witness ==
    /\ ipc = "returned"
    /\ has_next /\ first_page = 0 /\ last_page = 3
    /\ \A p \in 0 .. 3 : requested[p] = 1 /\ procDone[p] = 1
    /\ \A p \in Pages : p > 3 => requested[p] = 0

\* C7 -- Fetch-only mode: the calling thread enters _process_response for
\* pages in ascending page number, and enters it for a page only after
\* _process_response has returned for the page before it, whatever order the
\* responses arrived in.
C7_SubmissionOrder ==
    ~is_threadsafe =>
        \A i \in 1 .. Len(procStarted) - 1 :
            /\ procStarted[i] < procStarted[i + 1]
            /\ procDone[procStarted[i]] = 1
C7_Witness ==
    /\ ~is_threadsafe
    /\ overtaken
    /\ ipc = "returned"
    /\ Len(procStarted) >= 3

\* C8 -- Fetch-only mode: at most one thread is inside _process_response /
\* process_node and it is the thread that called ingest(); a pool worker is
\* idle or waiting for the answer to its GET.
C8_SingleWriter ==
    ~is_threadsafe =>
        /\ InProcessResponse \subseteq {Main}
        /\ \A p \in Pages : th[p].pc \in {"idle", "get"}
C8_Witness ==
    /\ ~is_threadsafe
    /\ th[Main].pc = "pnode"
    /\ \E p \in Pages : th[p].pc = "get"

\* C10 -- As claimed: one loader instance sends the login POST at most once
\* in its lifetime, and all its page GETs go out on one Session.
C10_LoginExactlyOnce ==
    /\ loginPosts <= 1
    /\ Cardinality(getSessions) <= 1

\* C10, amended -- At most one login succeeds in the lifetime of the instance
\* and no login POST follows it; a login POST is in flight only on the thread
\* that called ingest() and only while nothing is cached; every page GET, on
\* the calling thread or a pool worker in either mode, is sent after the
\* successful login on the Session that login cached.
C10_LoginOncePerSuccess ==
    /\ loginOks <= 1
    /\ api_client # 0 => loginOks = 1 /\ loginPosts = api_client
    /\ getSessions \subseteq {api_client} \ {0}
    /\ \A t \in Threads : th[t].pc = "login" => t = Main /\ api_client = 0
    /\ \A t \in Threads : th[t].pc = "get" => api_client # 0 /\ th[t].session = api_client
C10_Witness ==
    /\ loginPosts = 2
    /\ api_client = 2
    /\ getSessions = {2}
    /\ \E p \in Pages : th[p].pc = "get"


\* C11: when the login POST of a run is answered with a status other than
\* 200 or ends at a URL other than {root}/users/{username}, ingest() has
\* raised 'Login failed!': no page GET was sent in the run, no response was
\* received or processed, no work was given to a pool, no thread is logging
\* in again, and the catalog is untouched.
C11_LoginFailureAborts ==
    (/\ login_response # NoLoginResponse
     /\ (login_response.status # HTTP_OK \/ ~login_response.url_ok))
    => /\ ipc = "raised"
       /\ ierr = LoginFailed
       /\ api_client = 0
       /\ requested = ZeroPerPage
       /\ received = ZeroPerPage
       /\ procStarted = <<>>
       /\ procDone = ZeroPerPage
       /\ queue = <<>>
       /\ \A p \in Pages : fut[p] = NoFuture
       /\ \A t \in Threads : th[t] = IdleThread
       /\ CatalogIdle

\* The login was answered 200 but ended at another URL, and ingest() raised.
C11_Witness ==
    /\ login_response = [status |-> HTTP_OK, url_ok |-> FALSE]
    /\ ipc = "raised"
    /\ ierr = LoginFailed
    /\ loginPosts = 1


\* The pages of pagerange (line 75).
PageRange == pages_lo .. pages_hi - 1

\* C23: with every HTTP request answered, a fetch-only ingest() that has
\* started ends.  When it has ended and a pool was opened, every page of
\* pagerange was fetched to completion (no work item was cancelled or
\* left behind, whatever page the run aborted on).  It returned only with
\* every page of the run processed, and it raised on the first page, in
\* submission order, at which the calling thread met an error: every page
\* before it is processed, that page and the pages after it are not.
C23_FetchOnlyTerminates ==
    /\ [] ( (~is_threadsafe /\ Finished) =>
              /\ has_next => \A p \in PageRange :
                                 fut[p].st = "done" /\ requested[p] = 1
              /\ queue = <<>>
              /\ \A t \in Threads : th[t] = IdleThread
              /\ ipc = "returned" =>
                    /\ ierr = NoExc
                    /\ \A p \in Pages : InRun(p) => procDone[p] = 1
              /\ ipc = "raised" =>
                    /\ ierr # NoExc
                    /\ \A p \in Pages :
                          /\ (InRun(p) /\ p < ierr.page) => procDone[p] = 1
                          /\ p >= ierr.page => procDone[p] = 0
                          /\ p > ierr.page => received[p] = 0 )
    /\ (~is_threadsafe /\ ipc \notin {"idle", "returned", "raised"}) ~> Finished

\* A fetch-only run has raised on the first page of a pagerange of at least
\* two pages; the later pages were fetched all the same, and their
\* responses were never looked at.
C23_Witness ==
    /\ ~is_threadsafe
    /\ ipc = "raised"
    /\ has_next
    /\ pages_hi - pages_lo >= 2
    /\ ierr = StatusError(pages_lo, HTTP_ERROR)
    /\ \A p \in PageRange : fut[p].st = "done" /\ requested[p] = 1
    /\ \A p \in PageRange : p > pages_lo => received[p] = 0


(***************************************************************************)
(* CourseMarketingSiteDataLoader: the catalog written by process_node.      *)
(* A table is a sequence of rows and a row's primary key is its index; a    *)
(* many-to-many relation is the set of the related rows' indices.           *)
(***************************************************************************)

\* Python's None where a string is expected.
NULL == "<None>"

\* Truth value of an optional string (None and '' are false).
Truthy(s) == s # NULL /\ s # ""

\* A number field of a node: <<>> is None (or absent), <<n>> is the int n
\* and <<n, "str">> the string of its digits, which is what int() accepts.
\* None and the int 0 are false; a string of digits is true, '0' included.
TruthyNum(m) == m # <<>> /\ (Len(m) = 2 \/ m[1] # 0)

\* int(m)
IntOf(m) == m[1]

\* A nested field that is absent, None or empty.
NoField == [url |-> NULL, value |-> NULL]

\* _get_nested_url: (field or {}).get('url')
GetNestedUrl(field) == field.url

\* The loader's partner and another partner of the catalog.
Partner == "edx"
OtherPartner == "mitpe"

\* The run identifiers the marketing site sends: one run, in two casings.
RunIds == {"course-v1:MITx+6.00x+2016", "course-v1:mitx+6.00x+2016"}

\* key__iexact compares keys with their case folded.
Fold(s) ==
    CASE s = "course-v1:MITx+6.00x+2016" -> "course-v1:mitx+6.00x+2016"
      [] s = "MITx+6.00x" -> "mitx+6.00x"
      [] s = "MITx" -> "mitx"
      [] s = "HarvardX" -> "harvardx"
      [] s = "Harvard University" -> "harvard university"
      [] OTHER -> s

\* An exact comparison, letter case included.
ExactMatch(a, b) == a = b

IExact(a, b) == Fold(a) = Fold(b)

\* get_course_key_from_course_run_key: '{org}+{course}' of the run key.
GetCourseKeyFromCourseRunKey(id) ==
    CASE id = "course-v1:MITx+6.00x+2016" -> "MITx+6.00x"
      [] id = "course-v1:mitx+6.00x+2016" -> "mitx+6.00x"

\* clean_html: the markup is removed, plain text is kept.
CleanHtml(s) ==
    CASE s = "<p>Intro to CS</p>" -> "Intro to CS"
      [] s = "<p>Learn CS.</p>" -> "Learn CS."
      [] s = "<p>Draft</p>" -> "Draft"
      [] s = "Learn <b>CS</b>" -> "Learn CS"
      [] s = "<p>CEO of edX.</p>" -> "CEO of edX."
      [] s = "<p>MIT on edX.</p>" -> "MIT on edX."
      [] s = "<p>Computing.</p>" -> "Computing."
      [] s = "<p>Acme sponsors.</p>" -> "Acme sponsors."
      [] s = "<h3>XSeries Program Overview</h3><p>Learn astrophysics.</p>"
           -> "### XSeries Program Overview  Learn astrophysics."
      [] s = "<h3>XSeries Program Overview</h3><p>Series of courses.</p>"
           -> "### XSeries Program Overview  Series of courses."
      [] OTHER -> s

\* get_or_create_video: the Video of a source URL, None without one.
GetOrCreateVideo(video_url, image_url) ==
    IF Truthy(video_url)
    THEN [src |-> video_url, image |-> image_url]
    ELSE [src |-> NULL, image |-> NULL]

\* The editorial content of a course node: a finished page and a draft.
ContentA ==
    [ field_course_course_title |-> [value |-> "<p>Intro to CS</p>"],
      field_course_code |-> "6.00x",
      field_course_body |-> [value |-> "<p>Learn CS.</p>"],
      field_course_description |-> [value |-> "<p>Draft</p>"],
      field_product_video |-> [url |-> "https://video/intro.mp4"],
      field_course_image_featured_card |-> [url |-> "https://img/card.jpg"],
      field_course_sub_title_short |-> "Learn <b>CS</b>",
      field_course_level |-> "Introductory",
      field_course_image_promoted |-> [url |-> "https://img/promoted.jpg"],
      field_course_start_date |-> <<10>>,
      field_course_end_date |-> <<45, "str">>,
      field_course_required_weeks |-> <<>>,
      field_course_self_paced |-> FALSE,
      field_couse_is_hidden |-> FALSE,
      field_course_enrollment_mobile |-> TRUE ]

ContentB ==
    [ field_course_course_title |-> [value |-> "Temp title"],
      field_course_code |-> "TBD",
      field_course_body |-> [value |-> ""],
      field_course_description |-> [value |-> "<p>Draft</p>"],
      field_product_video |-> NoField,
      field_course_image_featured_card |-> NoField,
      field_course_sub_title_short |-> "tmp",
      field_course_level |-> NULL,
      field_course_image_promoted |-> NoField,
      field_course_start_date |-> <<>>,
      field_course_end_date |-> <<>>,
      field_course_required_weeks |-> <<4>>,
      field_course_self_paced |-> TRUE,
      field_couse_is_hidden |-> TRUE,
      field_course_enrollment_mobile |-> FALSE ]

Contents == {ContentA, ContentB}

\* The references of a course node: none; some that resolve beside one
\* that does not; others, one of them without a uuid.
Refs0 ==
    [ field_course_subject |-> <<>>,
      field_course_school_node |-> <<>>,
      field_course_staff |-> <<>>,
      field_course_languages |-> <<>>,
      field_course_video_locale_lang |-> <<>> ]

Refs1 ==
    [ field_course_subject |-> <<[uuid |-> "s-1"], [uuid |-> "s-9"]>>,
      field_course_school_node |-> <<[uuid |-> "o-1"]>>,
      field_course_staff |-> <<[uuid |-> "p-9"], [uuid |-> "p-1"]>>,
      field_course_languages |-> <<[name |-> "Klingon"], [name |-> "English "]>>,
      field_course_video_locale_lang |-> <<[name |-> "English"], [name |-> "Korean"]>> ]

Refs2 ==
    [ field_course_subject |-> <<[uuid |-> "s-2"]>>,
      field_course_school_node |-> <<[uuid |-> "o-2"], [uuid |-> NULL]>>,
      field_course_staff |-> <<[uuid |-> "p-2"], [uuid |-> "p-1"]>>,
      field_course_languages |-> <<[name |-> "Italian"], [name |-> "English"]>>,
      field_course_video_locale_lang |-> <<[name |-> "Italian"]>> ]

RefVariants == {Refs0, Refs1, Refs2}

\* The course nodes of the marketing site, as process_node receives them.
CourseNodes ==
    { [ field_course_id |-> id, status |-> st, uuid |-> "node-6.00x",
        url |-> "https://www.edx.org/course/intro-cs" ] @@ c @@ r :
        id \in RunIds, st \in {"0", "1"}, c \in Contents, r \in RefVariants }

\* url.split('/')[-1]
Slug(url) ==
    CASE url = "https://www.edx.org/course/intro-cs" -> "intro-cs"
      [] url = "https://www.edx.org/bio/anant-agarwal-0" -> "anant-agarwal-0"
      [] url = "https://www.edx.org/bio/a-agarwal" -> "a-agarwal"
      [] url = "https://www.edx.org/xseries/astrophysics" -> "astrophysics"
      [] url = "https://www.edx.org/xseries/biology" -> "biology"
      [] url = "https://www.edx.org/xseries/water" -> "water"
      [] url = "https://www.edx.org/xseries/unlisted" -> "unlisted"
      [] url = "https://www.edx.org/sponsorer/acme" -> "acme"
      [] OTHER -> url

\* str.strip()
Strip(s) ==
    CASE s = "English " -> "English"
      [] OTHER -> s

\* LANGUAGE_MAP.get(name)
LANGUAGE_MAP(name) ==
    CASE name = "English" -> "en-us"
      [] name = "Italian" -> "it-it"
      [] name = "Korean" -> "ko"
      [] OTHER -> NULL

\* The LanguageTag rows, in the table's order; 'ko' is not among them.
LanguageTags == <<"en-us", "it-it">>

\* get_language_tags_from_names
GetLanguageTagsFromNames(names) ==
    { i \in DOMAIN LanguageTags :
        \E k \in DOMAIN names : LANGUAGE_MAP(names[k]) = LanguageTags[i] }

\* _extract_language_tags
ExtractLanguageTags(raw_objects_data) ==
    GetLanguageTagsFromNames(
        [k \in DOMAIN raw_objects_data |-> Strip(raw_objects_data[k].name)])

\* _get_objects_by_uuid over the rows of one table
GetObjectsByUuid(table, raw_objects_data) ==
    { i \in DOMAIN table :
        \E k \in DOMAIN raw_objects_data :
            /\ raw_objects_data[k].uuid # NULL
            /\ table[i].uuid = raw_objects_data[k].uuid }

\* language_tags[0] if language_tags else None
FirstTag(tags) ==
    IF tags = {} THEN NULL
    ELSE LanguageTags[CHOOSE i \in tags : \A j \in tags : i <= j]

\* get_description
GetDescription(data) ==
    LET body == data.field_course_body.value
        descr == data.field_course_description.value
    IN  CleanHtml(IF Truthy(body) THEN body
                  ELSE IF Truthy(descr) THEN descr ELSE "")

\* get_course_run_status
GetCourseRunStatus(data) ==
    IF data.status # "0" THEN "published" ELSE "unpublished"

\* get_level_type: the LevelType of that name, None without a name
GetLevelType(name) == IF Truthy(name) THEN name ELSE NULL

\* get_video
GetVideo(data) ==
    GetOrCreateVideo(GetNestedUrl(data.field_product_video),
                     GetNestedUrl(data.field_course_image_featured_card))

\* get_pacing_type
GetPacingType(data) ==
    IF data.field_course_self_paced THEN "self_paced" ELSE "instructor_paced"

\* get_hidden
GetHidden(data) == data.field_couse_is_hidden = TRUE

\* Days in the period of rrule.WEEKLY (dates are counted in days).
WEEKLY == 7

\* The last occurrence is left out when it falls on `end`.
WeeklyCountExclusive(start, end) ==
    IF end <= start THEN 0 ELSE ((end - start - 1) \div WEEKLY) + 1
\* rrule(WEEKLY, dtstart=start, until=end).count()
WeeklyCount(start, end) ==
    IF end < start THEN 0 ELSE ((end - start) \div WEEKLY) + 1

\* fromtimestamp(int(t)) if t else None; dates are counted in days
FromTimestamp(t) == IF TruthyNum(t) THEN <<IntOf(t)>> ELSE <<>>

\* create_course_run, lines 469-477: weeks_to_complete from the explicit
\* weeks, else from the converted start and end, else None
WeeksToComplete(start, end, weeks) ==
    IF TruthyNum(weeks) THEN <<IntOf(weeks)>>
    ELSE IF start # <<>> /\ end # <<>>
         THEN <<WeeklyCount(start[1], end[1])>>
         ELSE <<>>

\* The defaults of process_node.
CourseDefaults(data) ==
    [ key |-> GetCourseKeyFromCourseRunKey(data.field_course_id),
      title |-> CleanHtml(CleanHtml(data.field_course_course_title.value)),
      number |-> data.field_course_code,
      full_description |-> GetDescription(data),
      video |-> GetVideo(data),
      short_description |-> CleanHtml(data.field_course_sub_title_short),
      level_type |-> GetLevelType(data.field_course_level),
      card_image_url |-> GetNestedUrl(data.field_course_image_promoted) ]

\* The defaults of create_course_run for the Course row `course`.
CourseRunDefaults(course, data) ==
    LET start == FromTimestamp(data.field_course_start_date)
        end == FromTimestamp(data.field_course_end_date)
        weeks == data.field_course_required_weeks
    IN  [ key |-> data.field_course_id,
          course |-> course,
          uuid |-> data.uuid,
          title_override |-> CleanHtml(CleanHtml(data.field_course_course_title.value)),
          language |-> FirstTag(ExtractLanguageTags(data.field_course_languages)),
          slug |-> Slug(data.url),
          card_image_url |-> GetNestedUrl(data.field_course_image_promoted),
          status |-> GetCourseRunStatus(data),
          start |-> start,
          pacing_type |-> GetPacingType(data),
          hidden |-> GetHidden(data),
          weeks_to_complete |-> WeeksToComplete(start, end, weeks),
          mobile_available |-> data.field_course_enrollment_mobile ]

CourseFieldNames == DOMAIN CourseDefaults(CHOOSE d \in CourseNodes : TRUE)
CourseRunFieldNames == DOMAIN CourseRunDefaults(0, CHOOSE d \in CourseNodes : TRUE)

\* The fields of a row, without its relations.
Fields(row, names) == [f \in names |-> row[f]]

\* setattr of every default, then save()
WithFields(row, defaults) ==
    [f \in DOMAIN row |-> IF f \in DOMAIN defaults THEN defaults[f] ELSE row[f]]

\* The table is emptied and the written row put into it.
UpsertAlone(table, i, row) == <<row>>

\* get_or_create, update_or_create and save(): the row of id i is written,
\* as a new row when i is the next free id; no other row is touched.
Upsert(table, i, row) ==
    IF i = Len(table) + 1 THEN Append(table, row) ELSE [table EXCEPT ![i] = row]

\* Course.objects.get_or_create(key__iexact=key, partner=self.partner)
MatchingCourses(key) ==
    { i \in DOMAIN courses :
        IExact(courses[i].key, key) /\ courses[i].partner = Partner }

\* CourseRun.objects.update_or_create(key__iexact=key): no partner here
MatchingCourseRuns(key) ==
    { j \in DOMAIN course_runs : IExact(course_runs[j].key, key) }

\* if not created and published: the fields of an existing course are
\* written from a Published node only
UpdatesCourseAlways(created, published) == ~created

UpdatesCourse(created, published) == ~created /\ published

\* update_or_create writes the defaults to the row it finds
UpdatesCourseRunIfPublished(found, published) == found /\ published

UpdatesCourseRun(found, published) == found

\* relation.clear() then relation.add(*matched)
AddWithoutClear(linked, matched) == linked \cup matched

ClearThenAdd(linked, matched) == matched

\* process_node, with set_subjects, set_authoring_organizations and
\* create_course_run (set_course_run_staff and
\* set_course_run_transcript_languages included).
CourseProcessNode(data) ==
    LET defaults == CourseDefaults(data)
        found == MatchingCourses(defaults.key)
        created == found = {}
        published == GetCourseRunStatus(data) = "published"
        c == IF created THEN Len(courses) + 1 ELSE CHOOSE i \in found : TRUE
        row0 == IF created
                THEN defaults @@ [partner |-> Partner, subjects |-> {},
                                  authoring_organizations |-> {}]
                ELSE IF UpdatesCourse(created, published)
                     THEN WithFields(courses[c], defaults)
                     ELSE courses[c]
        row1 == [row0 EXCEPT
                   !.subjects = ClearThenAdd(@,
                       GetObjectsByUuid(subjects, data.field_course_subject)),
                   !.authoring_organizations = ClearThenAdd(@,
                       GetObjectsByUuid(organizations, data.field_course_school_node))]
        rdefaults == CourseRunDefaults(c, data)
        rfound == MatchingCourseRuns(rdefaults.key)
        r == IF rfound = {} THEN Len(course_runs) + 1 ELSE CHOOSE j \in rfound : TRUE
        run0 == IF rfound = {}
                THEN rdefaults @@ [staff |-> {}, transcript_languages |-> {}]
                ELSE IF UpdatesCourseRun(TRUE, published)
                     THEN WithFields(course_runs[r], rdefaults)
                     ELSE course_runs[r]
        run1 == [run0 EXCEPT
                   !.staff = ClearThenAdd(@,
                       GetObjectsByUuid(people, data.field_course_staff)),
                   !.transcript_languages = ClearThenAdd(@,
                       ExtractLanguageTags(data.field_course_video_locale_lang))]
        pass == [kind |-> "course", data |-> data,
                 repeat |-> (last_pass.kind = "course" /\ last_pass.data = data),
                 created |-> created,
                 course |-> c, run |-> r, run_created |-> rfound = {},
                 subjects_were |-> IF created THEN {} ELSE courses[c].subjects,
                 run_was |-> IF rfound = {} \/ Cardinality(rfound) > 1 THEN NULL
                             ELSE course_runs[r].status]
    IN  /\ ipc = "idle"
        \* get_level_type runs while the defaults are built
        /\ level_types' = IF Truthy(data.field_course_level)
                          THEN level_types \cup {data.field_course_level}
                          ELSE level_types
        /\ IF Cardinality(found) > 1
           THEN \* get_or_create raises MultipleObjectsReturned
                /\ last_pass' = [pass EXCEPT !.course = 0, !.run = 0] @@ [outcome |-> "courses"]
                /\ UNCHANGED <<courses, course_source, course_runs>>
           ELSE /\ courses' = Upsert(courses, c, row1)
                /\ course_source' =
                       IF created
                       THEN Append(course_source, GetCourseRunStatus(data))
                       ELSE IF UpdatesCourse(created, published)
                            THEN [course_source EXCEPT ![c] = GetCourseRunStatus(data)]
                            ELSE course_source
                /\ IF Cardinality(rfound) > 1
                   THEN \* update_or_create finds several rows and raises;
                        \* no run is written, no staff or transcript set
                        /\ last_pass' = [pass EXCEPT !.run = 0] @@ [outcome |-> "course_runs"]
                        /\ UNCHANGED course_runs
                   ELSE /\ course_runs' = Upsert(course_runs, r, run1)
                        /\ last_pass' = pass @@ [outcome |-> "ok"]
        /\ UNCHANGED <<organizations, subjects, people, positions, programs, schedule>>
        /\ UNCHANGED pagerVars

\* The catalog before the course loader runs: the rows the other loaders
\* and other partners' loads left.  The same course may exist for another
\* partner, with its run, and the run may already be stored twice under keys
\* that differ in case only.
ForeignCourse ==
    CourseDefaults(CHOOSE d \in CourseNodes :
                     /\ d.field_course_id = "course-v1:MITx+6.00x+2016"
                     /\ d.status = "1"
                     /\ Fields(d, DOMAIN ContentA) = ContentA
                     /\ Fields(d, DOMAIN Refs0) = Refs0)
      @@ [partner |-> OtherPartner, subjects |-> {1}, authoring_organizations |-> {}]

StoredRun(key) ==
    [CourseRunDefaults(1, CHOOSE d \in CourseNodes :
                     /\ d.field_course_id = key
                     /\ d.status = "1"
                     /\ Fields(d, DOMAIN ContentA) = ContentA
                     /\ Fields(d, DOMAIN Refs0) = Refs0)
      @@ [staff |-> {1}, transcript_languages |-> {}]
      EXCEPT !.uuid = key]

InitCatalog ==
    /\ is_threadsafe = FALSE
    /\ max_workers = 1
    /\ api_client = 0
    /\ loginPosts = 0 /\ loginOks = 0
    /\ login_response = NoLoginResponse
    /\ getSessions = {}
    /\ ipc = "idle"
    /\ has_next = FALSE /\ first_page = 0 /\ last_page = 0
    /\ pages_lo = 0 /\ pages_hi = 0
    /\ sub = 0 /\ aw = 0
    /\ ierr = NoExc
    /\ queue = <<>>
    /\ fut = [p \in Pages |-> NoFuture]
    /\ th = [t \in Threads |-> IdleThread]
    /\ requested = ZeroPerPage /\ received = ZeroPerPage
    /\ procDone = ZeroPerPage
    /\ overtaken = FALSE /\ procStarted = <<>>
    /\ organizations = << [uuid |-> "o-1", partner |-> Partner],
                          [uuid |-> "o-2", partner |-> OtherPartner] >>
    /\ subjects = << [uuid |-> "s-1", partner |-> Partner],
                     [uuid |-> "s-2", partner |-> OtherPartner] >>
    /\ people = << [uuid |-> "p-1", partner |-> Partner],
                   [uuid |-> "p-2", partner |-> OtherPartner] >>
    /\ positions = <<>>
    /\ programs = <<>>
    /\ courses \in { <<>>, <<ForeignCourse>> }
    /\ course_source = [i \in DOMAIN courses |-> "published"]
    /\ course_runs \in
         { <<>>,
           << StoredRun("course-v1:MITx+6.00x+2016") >>,
           << StoredRun("course-v1:MITx+6.00x+2016"),
              StoredRun("course-v1:mitx+6.00x+2016") >> }
    /\ (course_runs # <<>> => courses # <<>>)
    /\ level_types = {}
    /\ last_pass = [kind |-> "none"]
    /\ schedule = NoSchedule

NextCatalog == \E data \in CourseNodes : CourseProcessNode(data)

SpecCatalog == InitCatalog /\ [][NextCatalog]_vars


(***************************************************************************)
(* The schedule of a course run (create_course_run, lines 451-477), over    *)
(* every combination of start, end and explicit weeks.                      *)
(***************************************************************************)

\* The values a number field can carry: absent, an int, a string of digits.
NumField(range) ==
    {<<>>} \cup { <<n>> : n \in range } \cup { <<n, "str">> : n \in range }

\* Course dates lie after the epoch.
Days == 1 .. MaxDay

\* A node arrives with its schedule fields.
InitSchedule ==
    /\ is_threadsafe = FALSE
    /\ max_workers = 1
    /\ api_client = 0
    /\ loginPosts = 0 /\ loginOks = 0
    /\ login_response = NoLoginResponse
    /\ getSessions = {}
    /\ ipc = "idle"
    /\ has_next = FALSE /\ first_page = 0 /\ last_page = 0
    /\ pages_lo = 0 /\ pages_hi = 0
    /\ sub = 0 /\ aw = 0
    /\ ierr = NoExc
    /\ queue = <<>>
    /\ fut = [p \in Pages |-> NoFuture]
    /\ th = [t \in Threads |-> IdleThread]
    /\ requested = ZeroPerPage /\ received = ZeroPerPage
    /\ procDone = ZeroPerPage
    /\ overtaken = FALSE /\ procStarted = <<>>
    /\ organizations = <<>>
    /\ subjects = <<>>
    /\ people = <<>>
    /\ positions = <<>>
    /\ programs = <<>>
    /\ courses = <<>>
    /\ course_source = <<>>
    /\ course_runs = <<>>
    /\ level_types = {}
    /\ last_pass = [kind |-> "none"]
    /\ \E start \in NumField(Days), end \in NumField(Days),
          weeks \in NumField(0 .. MaxWeeks) :
          schedule = [ done |-> FALSE,
                       field_course_start_date |-> start,
                       field_course_end_date |-> end,
                       field_course_required_weeks |-> weeks,
                       start |-> <<>>,
                       weeks_to_complete |-> <<>> ]

\* create_course_run, lines 451-477: start and weeks_to_complete of the
\* defaults are computed from the node's fields.
CreateCourseRunSchedule ==
    /\ ~schedule.done
    /\ LET start == FromTimestamp(schedule.field_course_start_date)
           end == FromTimestamp(schedule.field_course_end_date)
       IN  schedule' = [schedule EXCEPT
                          !.done = TRUE,
                          !.start = start,
                          !.weeks_to_complete =
                              WeeksToComplete(start, end,
                                              schedule.field_course_required_weeks)]
    /\ UNCHANGED <<organizations, subjects, people, positions, programs, courses,
                   course_source, course_runs, level_types, last_pass>>
    /\ UNCHANGED pagerVars

NextSchedule == CreateCourseRunSchedule

SpecSchedule == InitSchedule /\ [][NextSchedule]_vars

\* C12: whenever the node carries an explicit field_course_required_weeks,
\* whatever its value and whichever of start and end are present, the
\* stored weeks_to_complete is that integer.
C12_ExplicitWeeksStored ==
    (schedule.done /\ schedule # NoSchedule
       /\ schedule.field_course_required_weeks # <<>>)
    => schedule.weeks_to_complete = <<schedule.field_course_required_weeks[1]>>

C1_OnlyPublishedUpdatesCourse ==
    [][ \A i \in DOMAIN courses :
          Fields(courses'[i], CourseFieldNames) # Fields(courses[i], CourseFieldNames)
          => /\ last_pass'.kind = "course"
             /\ GetCourseRunStatus(last_pass'.data) = "published"
             /\ ~last_pass'.created
             /\ last_pass'.course = i ]_vars

\* An Unpublished draft has just been seen for a Course that holds the
\* values of a Published sighting, and the draft's values differ from them.
C1_Witness ==
    /\ last_pass.kind = "course"
    /\ last_pass.outcome = "ok"
    /\ ~last_pass.created
    /\ GetCourseRunStatus(last_pass.data) = "unpublished"
    /\ course_source[last_pass.course] = "published"
    /\ courses[last_pass.course].partner = Partner
    /\ courses[last_pass.course].title = "Intro to CS"
    /\ last_pass.data.field_course_course_title.value = "Temp title"

C9_RelationsReplaced ==
    [][ (/\ last_pass'.kind = "course"
         /\ last_pass'.outcome = "ok"
         /\ (last_pass'.created \/ GetCourseRunStatus(last_pass'.data) = "published"))
        => LET d == last_pass'.data
               c == courses'[last_pass'.course]
               r == course_runs'[last_pass'.run]
               refs(raw) == { raw[k].uuid : k \in DOMAIN raw }
               codes(raw) == { LANGUAGE_MAP(Strip(raw[k].name)) : k \in DOMAIN raw }
           IN  /\ c.subjects = { i \in DOMAIN subjects :
                                   subjects[i].uuid \in refs(d.field_course_subject) }
               /\ c.authoring_organizations
                     = { i \in DOMAIN organizations :
                           organizations[i].uuid \in refs(d.field_course_school_node) }
               /\ r.staff = { i \in DOMAIN people :
                                people[i].uuid \in refs(d.field_course_staff) }
               /\ r.transcript_languages
                     = { i \in DOMAIN LanguageTags :
                           LanguageTags[i] \in codes(d.field_course_video_locale_lang) }
               /\ subjects' = subjects
               /\ organizations' = organizations
               /\ people' = people ]_vars

\* A Published pass over an existing Course that was linked to a Subject
\* the node does not name, with references of which one has no stored row.
C9_Witness ==
    /\ last_pass.kind = "course"
    /\ last_pass.outcome = "ok"
    /\ ~last_pass.created
    /\ GetCourseRunStatus(last_pass.data) = "published"
    /\ last_pass.subjects_were = {2}
    /\ Fields(last_pass.data, DOMAIN Refs1) = Refs1
    /\ courses[last_pass.course].subjects = {1}
    /\ course_runs[last_pass.run].staff = {1}
    /\ course_runs[last_pass.run].transcript_languages = {1}

\* C14: with process_node called from the calling thread only (fetch-only
\* mode), no partner ever has two Courses whose keys are equal ignoring
\* case: a node whose course key differs from a stored Course of the
\* loader's partner in letter case only resolves to that Course.
C14_NoCaseDuplicateCourses ==
    /\ ~is_threadsafe
    /\ \A i, j \in DOMAIN courses :
          (i # j /\ courses[i].partner = courses[j].partner)
          => Fold(courses[i].key) # Fold(courses[j].key)

\* A node spelling the key 'mitx+6.00x' has just resolved to the Course
\* stored as 'MITx+6.00x', beside another partner's Course of that key.
C14_Witness ==
    /\ last_pass.kind = "course"
    /\ last_pass.outcome = "ok"
    /\ ~last_pass.created
    /\ GetCourseKeyFromCourseRunKey(last_pass.data.field_course_id) = "mitx+6.00x"
    /\ courses[last_pass.course].key = "MITx+6.00x"
    /\ courses[last_pass.course].partner = Partner
    /\ Len(courses) = 2

\* C21: a course pass of the loader's partner never links to, or re-parents,
\* a row of another partner: the Subjects and Organizations it places on
\* the Course, the People it places on the CourseRun, and the Course of the
\* CourseRun it updates all belong to the loader's partner.
C21_PartnerIsolation ==
    [][ (last_pass'.kind = "course" /\ last_pass'.outcome = "ok")
        => LET c == last_pass'.course
               r == last_pass'.run
           IN  /\ \A i \in courses'[c].subjects : subjects[i].partner = Partner
               /\ \A i \in courses'[c].authoring_organizations :
                      organizations[i].partner = Partner
               /\ \A i \in course_runs'[r].staff : people[i].partner = Partner
               /\ ~last_pass'.run_created
                     => courses[course_runs[r].course].partner = Partner ]_vars

\* C22: a pass that finds the Course stored and whose node is not
\* Published leaves the Course's subject set and authoring-organization
\* set as they were.
C22_UnpublishedKeepsRelations ==
    [][ ( /\ last_pass'.kind = "course"
          /\ last_pass'.outcome # "courses"
          /\ ~last_pass'.created
          /\ GetCourseRunStatus(last_pass'.data) # "published" )
        => LET c == last_pass'.course
           IN  /\ courses'[c].subjects = courses[c].subjects
               /\ courses'[c].authoring_organizations
                     = courses[c].authoring_organizations ]_vars


(***************************************************************************)
(* PersonMarketingSiteDataLoader: process_node and set_position.            *)
(***************************************************************************)

\* The state of the pager while nodes are handed to process_node one after
\* another on the calling thread.
PagerIdle ==
    /\ is_threadsafe = FALSE
    /\ max_workers = 1
    /\ api_client = 0
    /\ loginPosts = 0 /\ loginOks = 0
    /\ login_response = NoLoginResponse
    /\ getSessions = {}
    /\ ipc = "idle"
    /\ has_next = FALSE /\ first_page = 0 /\ last_page = 0
    /\ pages_lo = 0 /\ pages_hi = 0
    /\ sub = 0 /\ aw = 0
    /\ ierr = NoExc
    /\ queue = <<>>
    /\ fut = [p \in Pages |-> NoFuture]
    /\ th = [t \in Threads |-> IdleThread]
    /\ requested = ZeroPerPage /\ received = ZeroPerPage
    /\ procDone = ZeroPerPage
    /\ overtaken = FALSE /\ procStarted = <<>>

\* UUID(data['uuid']): the canonical form, hex digits in lower case
UuidOf(s) ==
    CASE s = "A1B2" -> "a1b2"
      [] OTHER -> s

\* The AutoSlugField of Person: the slug made of the names when the row is
\* inserted.
AutoSlug(given_name, family_name) ==
    CASE given_name = "Anant" /\ family_name = "Agarwal" -> "anant-agarwal"
      [] given_name = "A." /\ family_name = "Agarwal" -> "a-agarwal"
      [] OTHER -> "person"

\* The profile of a person node, in two editions.
ProfileA ==
    [ field_person_first_middle_name |-> "Anant",
      field_person_last_name |-> "Agarwal",
      field_person_resume |-> [value |-> "<p>CEO of edX.</p>"],
      field_person_image |-> [url |-> "https://img/anant.jpg"],
      url |-> "https://www.edx.org/bio/anant-agarwal-0" ]

ProfileB ==
    [ field_person_first_middle_name |-> "A.",
      field_person_last_name |-> "Agarwal",
      field_person_resume |-> [value |-> ""],
      field_person_image |-> NoField,
      url |-> "https://www.edx.org/bio/a-agarwal" ]

Profiles == {ProfileA, ProfileB}

\* field_person_positions of a person node: no position (or no such
\* field); a position without titles; an item without the titles key; and
\* positions whose organization link names a key of the loader's partner,
\* a key of another partner, a name of another partner's organization,
\* nothing that is stored, or is missing.
PositionFields ==
    { <<>>,
      << [ field_person_position_tiltes |-> <<>>,
           field_person_position_org_link |-> [title |-> "mitx"] ] >>,
      << [ field_person_position_org_link |-> [title |-> "mitx"] ] >>,
      << [ field_person_position_tiltes |-> <<"CEO", "Professor">>,
           field_person_position_org_link |-> [title |-> "mitx"] ],
         [ field_person_position_tiltes |-> <<"Advisor">>,
           field_person_position_org_link |-> [title |-> "Acme"] ] >>,
      << [ field_person_position_tiltes |-> <<"Professor">>,
           field_person_position_org_link |-> [title |-> "harvardx"] ] >>,
      << [ field_person_position_tiltes |-> <<"Professor">>,
           field_person_position_org_link |-> [title |-> "harvard university"] ] >>,
      << [ field_person_position_tiltes |-> <<"Founder">>,
           field_person_position_org_link |-> [title |-> "Acme"] ] >>,
      << [ field_person_position_tiltes |-> <<"Founder">> ] >> }

\* The person nodes of the marketing site: one person, its uuid spelled in
\* lower or in upper case.
PersonNodes ==
    { [ uuid |-> u, field_person_positions |-> ps ] @@ pr :
        u \in {"a1b2", "A1B2"}, pr \in Profiles, ps \in PositionFields }

\* The defaults of process_node.
PersonDefaults(data) ==
    [ given_name |-> data.field_person_first_middle_name,
      family_name |-> data.field_person_last_name,
      bio |-> CleanHtml(data.field_person_resume.value),
      profile_image_url |-> GetNestedUrl(data.field_person_image),
      slug |-> Slug(data.url) ]

PersonFieldNames == DOMAIN PersonDefaults(CHOOSE d \in PersonNodes : TRUE)

\* Person.objects.update_or_create(uuid=uuid, partner=self.partner, ...)
MatchingPeople(uuid) ==
    { i \in DOMAIN people : people[i].uuid = uuid /\ people[i].partner = Partner }

\* The slug is left as the insert made it.
SlugAfterCreateAuto(auto, slug) == auto

\* if created: person.slug = slug; person.save()
SlugAfterCreate(auto, slug) == slug

\* (data.get('field_person_position_org_link', {}) or {}).get('title')
OrganizationName(item) ==
    IF "field_person_position_org_link" \in DOMAIN item
    THEN item.field_person_position_org_link.title
    ELSE NULL

\* Organization.objects.filter(Q(name__iexact=n) | Q(key__iexact=n) &
\* Q(partner=self.partner)).first(): & binds before |, so a name matches
\* whatever its partner; first() takes the row of the lowest id.
ResolveOrganization(organization_name) ==
    LET found == { i \in DOMAIN organizations :
                     \/ IExact(organizations[i].name, organization_name)
                     \/ /\ IExact(organizations[i].key, organization_name)
                        /\ organizations[i].partner = Partner }
    IN  IF Truthy(organization_name) /\ found # {}
        THEN CHOOSE i \in found : \A j \in found : i <= j
        ELSE 0

\* Both columns are filled from the link.
PositionDefaultsBoth(title, organization, organization_name) ==
    [ title |-> title,
      organization |-> organization,
      organization_override |-> organization_name ]

\* set_position, lines 324-333: organization 0 is None
PositionDefaults(title, organization, organization_name) ==
    [ title |-> title,
      organization |-> organization,
      organization_override |-> IF organization # 0 THEN NULL ELSE organization_name ]

PositionFieldNames == {"title", "organization", "organization_override"}

\* What set_position does with a node: "none" when the node has no
\* position or the position no title, "failed" when the item has no titles
\* key (KeyError, logged by the bare except), else the defaults it upserts.
SetPositionDefaults(data) ==
    LET ps == data.field_person_positions
    IN  IF ps = <<>> THEN [kind |-> "none"]
        ELSE IF "field_person_position_tiltes" \notin DOMAIN ps[1]
             THEN [kind |-> "failed"]
             ELSE IF ps[1].field_person_position_tiltes = <<>>
                  THEN [kind |-> "none"]
                  ELSE [kind |-> "upsert"] @@
                       PositionDefaults(ps[1].field_person_position_tiltes[1],
                                        ResolveOrganization(OrganizationName(ps[1])),
                                        OrganizationName(ps[1]))

\* process_node with set_position.
PersonProcessNode(data) ==
    LET uuid == UuidOf(data.uuid)
        defaults == PersonDefaults(data)
        found == MatchingPeople(uuid)
        created == found = {}
        p == IF created THEN Len(people) + 1 ELSE CHOOSE i \in found : TRUE
        inserted == [defaults EXCEPT !.slug = AutoSlug(defaults.given_name,
                                                       defaults.family_name)]
                      @@ [uuid |-> uuid, partner |-> Partner]
        row == IF created
               THEN [inserted EXCEPT !.slug = SlugAfterCreate(@, defaults.slug)]
               ELSE WithFields(people[p], defaults)
        pos == SetPositionDefaults(data)
        pfound == { k \in DOMAIN positions : positions[k].person = p }
        written == pos.kind = "upsert" /\ Cardinality(pfound) <= 1
    IN  /\ ipc = "idle"
        /\ Cardinality(found) <= 1
        /\ people' = Upsert(people, p, row)
        /\ positions' =
             IF ~written THEN positions
             ELSE IF pfound = {}
                  THEN Upsert(positions, Len(positions) + 1,
                              Fields(pos, PositionFieldNames) @@ [person |-> p])
                  ELSE LET k == CHOOSE k \in pfound : TRUE
                       IN  Upsert(positions, k,
                                  WithFields(positions[k], Fields(pos, PositionFieldNames)))
        /\ last_pass' = [ kind |-> "person", data |-> data,
                          repeat |-> (last_pass.kind = "person" /\ last_pass.data = data),
                          created |-> created,
                          person |-> p,
                          given_name_was |-> IF created THEN NULL
                                             ELSE people[p].given_name,
                          position |-> IF written THEN "written"
                                       ELSE IF pos.kind = "none" THEN "none"
                                       ELSE "failed",
                          had_position |-> pfound # {} ]
        /\ UNCHANGED <<organizations, subjects, programs, courses, course_source,
                       course_runs, level_types, schedule>>
        /\ UNCHANGED pagerVars

\* The catalog before the person loader runs: the organizations the school
\* loader stored, and no person or one with a position.
StoredOrganizations ==
    << [ uuid |-> "o-1", partner |-> Partner, key |-> "MITx", name |-> "MIT" ],
       [ uuid |-> "o-2", partner |-> OtherPartner, key |-> "HarvardX",
         name |-> "Harvard University" ] >>

StoredPerson ==
    [ uuid |-> "c3d4", partner |-> Partner, given_name |-> "Piotr",
      family_name |-> "Mitros", bio |-> "", profile_image_url |-> NULL,
      slug |-> "piotr-mitros" ]

StoredPosition ==
    [ person |-> 1, title |-> "Lecturer", organization |-> 1,
      organization_override |-> NULL ]

InitPerson ==
    /\ PagerIdle
    /\ organizations = StoredOrganizations
    /\ subjects = <<>>
    /\ programs = <<>>
    /\ courses = <<>>
    /\ course_source = <<>>
    /\ course_runs = <<>>
    /\ level_types = {}
    /\ schedule = NoSchedule
    /\ last_pass = [kind |-> "none"]
    /\ \/ people = <<>> /\ positions = <<>>
       \/ people = <<StoredPerson>> /\ positions = <<StoredPosition>>

NextPerson == \E data \in PersonNodes : PersonProcessNode(data)

SpecPerson == InitPerson /\ [][NextPerson]_vars

\* C15: each Person has at most one Position, and after a pass of a person
\* node every Position of that Person holds the title, organization and
\* organization_override derived from that node and nothing from an
\* earlier pass.
C15_PositionReplacedEachPass ==
    /\ \A k1, k2 \in DOMAIN positions :
          positions[k1].person = positions[k2].person => k1 = k2
    /\ last_pass.kind = "person"
       => \A k \in DOMAIN positions :
             positions[k].person = last_pass.person
             => LET ps == last_pass.data.field_person_positions
                IN  /\ ps # <<>>
                    /\ "field_person_position_tiltes" \in DOMAIN ps[1]
                    /\ ps[1].field_person_position_tiltes # <<>>
                    /\ positions[k].title = ps[1].field_person_position_tiltes[1]
                    /\ positions[k].organization
                         = ResolveOrganization(OrganizationName(ps[1]))
                    /\ positions[k].organization_override
                         = IF ResolveOrganization(OrganizationName(ps[1])) # 0
                           THEN NULL ELSE OrganizationName(ps[1])

\* C16: no Position has both an organization and an organization_override;
\* a Position just written has its organization set exactly when the
\* link's name resolved to an Organization, and otherwise carries the
\* free-text name as its override.
C16_OrganizationOrOverride ==
    /\ \A k \in DOMAIN positions :
          ~(positions[k].organization # 0 /\ positions[k].organization_override # NULL)
    /\ (last_pass.kind = "person" /\ last_pass.position = "written")
       => LET item == last_pass.data.field_person_positions[1]
              name == OrganizationName(item)
              resolved == { i \in DOMAIN organizations :
                              \/ Fold(organizations[i].name) = Fold(name)
                              \/ /\ Fold(organizations[i].key) = Fold(name)
                                 /\ organizations[i].partner = Partner }
              pos == CHOOSE k \in DOMAIN positions :
                        positions[k].person = last_pass.person
          IN  IF name # NULL /\ resolved # {}
              THEN /\ positions[pos].organization \in resolved
                   /\ positions[pos].organization_override = NULL
              ELSE /\ positions[pos].organization = 0
                   /\ positions[pos].organization_override = name

\* One Position points at a resolved Organization and another, just
\* written, carries a free-text name.
C16_Witness ==
    /\ last_pass.kind = "person"
    /\ last_pass.position = "written"
    /\ Len(positions) = 2
    /\ positions[1].organization = 1
    /\ positions[1].organization_override = NULL
    /\ positions[2].organization = 0
    /\ positions[2].organization_override = "Acme"

\* C19: after a pass of a person node the Person of that (uuid, partner)
\* holds the given name, family name, bio, profile image and slug of that
\* node, on update as on creation, where the slug is the upstream slug and
\* not the one generated from the names.
C19_PersonOverwritten ==
    last_pass.kind = "person"
    => LET d == last_pass.data
           person == people[last_pass.person]
       IN  /\ person.uuid = UuidOf(d.uuid)
           /\ person.partner = Partner
           /\ person.given_name = d.field_person_first_middle_name
           /\ person.family_name = d.field_person_last_name
           /\ person.bio = CleanHtml(d.field_person_resume.value)
           /\ person.profile_image_url = d.field_person_image.url
           /\ person.slug = Slug(d.url)
           /\ \A i \in DOMAIN people :
                 (people[i].uuid = person.uuid /\ people[i].partner = Partner)
                 => i = last_pass.person

\* A Person stored as 'Anant' has just been seen again, under the upper-case
\* spelling of its uuid, with the given name 'A.'.
C19_Witness ==
    /\ last_pass.kind = "person"
    /\ ~last_pass.created
    /\ last_pass.given_name_was = "Anant"
    /\ last_pass.data.uuid = "A1B2"
    /\ people[last_pass.person].given_name = "A."
    /\ people[last_pass.person].slug = "a-agarwal"


(***************************************************************************)
(* XSeriesMarketingSiteDataLoader.process_node.                             *)
(***************************************************************************)

\* overview.lstrip('### XSeries Program Overview').strip(): lstrip takes a
\* set of characters and removes every leading character that is in it
\* ('#', ' ', and the letters of the heading), not the heading as a prefix.
StripOverview(s) ==
    CASE s = "### XSeries Program Overview  Learn astrophysics."
           -> "Learn astrophysics."
      [] s = "### XSeries Program Overview  Series of courses."
           -> "f courses."
      [] OTHER -> s

\* The content of an xseries node, in four editions; a missing optional
\* field is read as None by data.get.
XSeriesContents ==
    { [ body |-> [value |-> b],
        field_xseries_subtitle_short |-> o.subtitle,
        field_card_image |-> o.image,
        field_product_video |-> o.video,
        field_cards_section_description |-> o.credit ] :
        b \in { "<h3>XSeries Program Overview</h3><p>Learn astrophysics.</p>",
                "<h3>XSeries Program Overview</h3><p>Series of courses.</p>" },
        o \in { [ subtitle |-> "Explore the universe",
                  image |-> [url |-> "https://img/xseries.jpg"],
                  video |-> [url |-> "https://video/xseries.mp4"],
                  credit |-> "Earn credit" ],
                [ subtitle |-> NULL, image |-> NoField, video |-> NoField,
                  credit |-> NULL ] } }

\* The xseries nodes of the marketing site: two programs of the loader's
\* partner, one that only another partner has, and one nobody has.
XSeriesNodes ==
    { [ url |-> u ] @@ c :
        u \in { "https://www.edx.org/xseries/astrophysics",
                "https://www.edx.org/xseries/biology",
                "https://www.edx.org/xseries/water",
                "https://www.edx.org/xseries/unlisted" },
        c \in XSeriesContents }

\* The fields process_node sets on the program.
ProgramData(data) ==
    [ subtitle |-> data.field_xseries_subtitle_short,
      card_image_url |-> GetNestedUrl(data.field_card_image),
      overview |-> StripOverview(CleanHtml(data.body.value)),
      video |-> GetOrCreateVideo(GetNestedUrl(data.field_product_video), NULL),
      credit_redemption_overview |-> data.field_cards_section_description ]

\* The partner is not part of the lookup.
MatchingProgramsAnyPartner(marketing_slug) ==
    { i \in DOMAIN programs : programs[i].marketing_slug = marketing_slug }

\* Program.objects.get(marketing_slug=marketing_slug, partner=self.partner)
MatchingPrograms(marketing_slug) ==
    { i \in DOMAIN programs :
        /\ programs[i].marketing_slug = marketing_slug
        /\ programs[i].partner = Partner }

\* process_node: DoesNotExist is logged and None returned; several matches
\* raise MultipleObjectsReturned before anything is written.
XSeriesProcessNode(data) ==
    LET marketing_slug == Slug(data.url)
        found == MatchingPrograms(marketing_slug)
        i == CHOOSE i \in found : TRUE
    IN  /\ ipc = "idle"
        /\ programs' = IF Cardinality(found) = 1
                       THEN Upsert(programs, i, WithFields(programs[i], ProgramData(data)))
                       ELSE programs
        /\ last_pass' = [ kind |-> "xseries", data |-> data,
                          repeat |-> (last_pass.kind = "xseries" /\ last_pass.data = data),
                          program |-> IF Cardinality(found) = 1 THEN i ELSE 0,
                          outcome |-> IF found = {} THEN "returned None"
                                      ELSE IF Cardinality(found) = 1 THEN "returned program"
                                      ELSE "raised" ]
        /\ UNCHANGED <<organizations, subjects, people, positions, courses,
                       course_source, course_runs, level_types, schedule>>
        /\ UNCHANGED pagerVars

\* A Program as the Programs Service left it.
StoredProgram(marketing_slug, partner) ==
    [ marketing_slug |-> marketing_slug, partner |-> partner,
      subtitle |-> NULL, card_image_url |-> NULL, overview |-> "",
      video |-> [src |-> NULL, image |-> NULL],
      credit_redemption_overview |-> NULL ]

InitXSeries ==
    /\ PagerIdle
    /\ organizations = <<>>
    /\ subjects = <<>>
    /\ people = <<>>
    /\ positions = <<>>
    /\ courses = <<>>
    /\ course_source = <<>>
    /\ course_runs = <<>>
    /\ level_types = {}
    /\ schedule = NoSchedule
    /\ last_pass = [kind |-> "none"]
    /\ programs = << StoredProgram("astrophysics", Partner),
                     StoredProgram("astrophysics", OtherPartner),
                     StoredProgram("water", OtherPartner),
                     StoredProgram("biology", Partner) >>

NextXSeries == \E data \in XSeriesNodes : XSeriesProcessNode(data)

SpecXSeries == InitXSeries /\ [][NextXSeries]_vars

\* C17: a pass of an xseries node creates and removes no Program and
\* changes no Program's (marketing_slug, partner); when no Program of the
\* loader's partner has the node's slug, process_node returns None and no
\* Program changes; when one has, only that Program changes.
C17_ProgramsUpdateOnly ==
    [][ /\ Len(programs') = Len(programs)
        /\ \A i \in DOMAIN programs :
              /\ programs'[i].marketing_slug = programs[i].marketing_slug
              /\ programs'[i].partner = programs[i].partner
        /\ last_pass'.kind = "xseries"
           => LET slug == Slug(last_pass'.data.url)
                  own == { i \in DOMAIN programs :
                             /\ programs[i].marketing_slug = slug
                             /\ programs[i].partner = Partner }
              IN  /\ own = {} => /\ last_pass'.outcome = "returned None"
                                 /\ programs' = programs
                  /\ \A i \in DOMAIN programs : i \notin own => programs'[i] = programs[i]
                  /\ own # {} => /\ last_pass'.outcome = "returned program"
                                 /\ last_pass'.program \in own ]_vars

\* A node for 'water', which only the other partner has, was skipped after
\* a node for 'astrophysics' had updated the partner's own Program.
C17_Witness ==
    /\ last_pass.kind = "xseries"
    /\ Slug(last_pass.data.url) = "water"
    /\ last_pass.outcome = "returned None"
    /\ programs[1].overview = "Learn astrophysics."
    /\ programs[2] = StoredProgram("astrophysics", OtherPartner)
    /\ programs[3] = StoredProgram("water", OtherPartner)


(***************************************************************************)
(* SchoolMarketingSiteDataLoader: process_node and set_tags.                *)
(***************************************************************************)

\* set_tags, lines 228-233: the flag fields and their tags
TagMapping ==
    [ field_school_is_founder |-> "founder",
      field_school_is_charter |-> "charter",
      field_school_is_contributor |-> "contributor",
      field_school_is_partner |-> "partner" ]

\* The flags of a school node: all four present, only two present, or none
\* present, each present flag true or false.
SchoolFlags ==
    UNION { [D -> BOOLEAN] :
              D \in { DOMAIN TagMapping,
                      {"field_school_is_founder", "field_school_is_partner"},
                      {} } }

\* The content of a school node, in two editions.
SchoolContents ==
    { [ uuid |-> "o-1", field_school_name |-> "MIT",
        field_school_description |-> [value |-> "<p>MIT on edX.</p>"],
        field_school_image_logo |-> [url |-> "https://img/mit-logo.png"],
        field_school_image_banner |-> [url |-> "https://img/mit-banner.png"],
        field_school_url_slug |-> "mitx" ],
      [ uuid |-> "o-1", field_school_name |-> "Massachusetts Institute of Technology",
        field_school_description |-> [value |-> ""],
        field_school_image_logo |-> NoField,
        field_school_image_banner |-> NoField,
        field_school_url_slug |-> "mit" ] }

\* A school node: its content and its flags.
SchoolNodes ==
    { [ title |-> "MITx", content |-> c, flags |-> f ] :
        c \in SchoolContents, f \in SchoolFlags }

\* 'school/' + data['field_school_url_slug']
MarketingUrlPath(slug) ==
    CASE slug = "mitx" -> "school/mitx"
      [] slug = "mit" -> "school/mit"

\* The defaults of process_node.
SchoolDefaults(data) ==
    [ uuid |-> data.content.uuid,
      name |-> data.content.field_school_name,
      description |-> CleanHtml(data.content.field_school_description.value),
      logo_image_url |-> GetNestedUrl(data.content.field_school_image_logo),
      banner_image_url |-> GetNestedUrl(data.content.field_school_image_banner),
      marketing_url_path |-> MarketingUrlPath(data.content.field_school_url_slug) ]

\* Organization.objects.update_or_create(key=key, partner=self.partner, ...)
MatchingOrganizations(key) ==
    { i \in DOMAIN organizations :
        organizations[i].key = key /\ organizations[i].partner = Partner }

\* set_tags, lines 235-237: the tags whose flag is there and true
TagsOf(flags) ==
    { TagMapping[field] : field \in { g \in DOMAIN TagMapping :
                                        g \in DOMAIN flags /\ flags[g] } }

\* school.tags.add(*tags): the earlier tags are kept.
TagsAdded(old, tags) == old \cup tags

\* school.tags.set(*tags, clear=True)
TagsSet(old, tags) == tags

\* process_node with set_tags.
SchoolProcessNode(data) ==
    LET key == data.title
        defaults == SchoolDefaults(data)
        found == MatchingOrganizations(key)
        created == found = {}
        i == IF created THEN Len(organizations) + 1 ELSE CHOOSE j \in found : TRUE
        row0 == IF created
                THEN defaults @@ [key |-> key, partner |-> Partner, tags |-> {}]
                ELSE WithFields(organizations[i], defaults)
        row1 == [row0 EXCEPT !.tags = TagsSet(@, TagsOf(data.flags))]
    IN  /\ ipc = "idle"
        /\ Cardinality(found) <= 1
        /\ organizations' = Upsert(organizations, i, row1)
        /\ last_pass' = [ kind |-> "school", data |-> data,
                          repeat |-> (last_pass.kind = "school" /\ last_pass.data = data),
                          created |-> created,
                          school |-> i,
                          tags_were |-> IF created THEN {} ELSE organizations[i].tags ]
        /\ UNCHANGED <<subjects, people, positions, programs, courses,
                       course_source, course_runs, level_types, schedule>>
        /\ UNCHANGED pagerVars

\* An Organization row with its tags.
StoredSchool(key, partner, tags) ==
    [ key |-> key, partner |-> partner, uuid |-> "o-0", name |-> key,
      description |-> "", logo_image_url |-> NULL, banner_image_url |-> NULL,
      marketing_url_path |-> NULL, tags |-> tags ]

\* Another partner has a school of the same key; the loader's partner has
\* none yet, or one tagged by an earlier run.
InitSchool ==
    /\ PagerIdle
    /\ subjects = <<>>
    /\ people = <<>>
    /\ positions = <<>>
    /\ programs = <<>>
    /\ courses = <<>>
    /\ course_source = <<>>
    /\ course_runs = <<>>
    /\ level_types = {}
    /\ schedule = NoSchedule
    /\ last_pass = [kind |-> "none"]
    /\ organizations \in
         { << StoredSchool("MITx", OtherPartner, {"partner"}) >>,
           << StoredSchool("MITx", OtherPartner, {"partner"}),
              StoredSchool("MITx", Partner, {"charter", "contributor"}) >> }

NextSchool == \E data \in SchoolNodes : SchoolProcessNode(data)

SpecSchool == InitSchool /\ [][NextSchool]_vars

\* C18: after a pass of a school node the school's tags are exactly the
\* labels among founder, charter, contributor and partner whose
\* field_school_is_* flag is present and true in the node, whatever the
\* tags were before.
C18_TagsFromFlags ==
    last_pass.kind = "school"
    => LET f == last_pass.data.flags
           on(field) == field \in DOMAIN f /\ f[field]
       IN  organizations[last_pass.school].tags
             = { t \in {"founder", "charter", "contributor", "partner"} :
                   \/ t = "founder" /\ on("field_school_is_founder")
                   \/ t = "charter" /\ on("field_school_is_charter")
                   \/ t = "contributor" /\ on("field_school_is_contributor")
                   \/ t = "partner" /\ on("field_school_is_partner") }

\* Flags founder true, charter false, contributor false, partner true have
\* just replaced the tags {charter, contributor} by {founder, partner}.
C18_Witness ==
    /\ last_pass.kind = "school"
    /\ ~last_pass.created
    /\ last_pass.tags_were = {"charter", "contributor"}
    /\ last_pass.data.flags = [ field_school_is_founder |-> TRUE,
                                field_school_is_charter |-> FALSE,
                                field_school_is_contributor |-> FALSE,
                                field_school_is_partner |-> TRUE ]
    /\ organizations[last_pass.school].tags = {"founder", "partner"}
    /\ organizations[1].tags = {"partner"}


(***************************************************************************)
(* SubjectMarketingSiteDataLoader and SponsorMarketingSiteDataLoader.       *)
(***************************************************************************)

\* The subject nodes of the marketing site: one subject, in two editions.
SubjectNodes ==
    { [ field_subject_url_slug |-> "computer-science", uuid |-> "s-1",
        title |-> "Computer Science",
        body |-> [value |-> "<p>Computing.</p>"],
        field_subject_subtitle |-> [value |-> "Learn to code"],
        field_subject_card_image |-> [url |-> "https://img/cs-card.jpg"],
        field_xseries_banner_image |-> [url |-> "https://img/cs-banner.jpg"] ],
      [ field_subject_url_slug |-> "computer-science", uuid |-> "s-1",
        title |-> "Computing",
        body |-> [value |-> ""],
        field_subject_subtitle |-> [value |-> ""],
        field_subject_card_image |-> NoField,
        field_xseries_banner_image |-> NoField ] }

\* The defaults of SubjectMarketingSiteDataLoader.process_node.
SubjectDefaults(data) ==
    [ uuid |-> data.uuid,
      name |-> data.title,
      description |-> CleanHtml(data.body.value),
      subtitle |-> CleanHtml(data.field_subject_subtitle.value),
      card_image_url |-> GetNestedUrl(data.field_subject_card_image),
      banner_image_url |-> GetNestedUrl(data.field_xseries_banner_image) ]

\* Subject.objects.update_or_create(slug=slug, partner=self.partner, ...)
MatchingSubjects(slug) ==
    { i \in DOMAIN subjects : subjects[i].slug = slug /\ subjects[i].partner = Partner }

\* SubjectMarketingSiteDataLoader.process_node
SubjectProcessNode(data) ==
    LET slug == data.field_subject_url_slug
        defaults == SubjectDefaults(data)
        found == MatchingSubjects(slug)
        created == found = {}
        i == IF created THEN Len(subjects) + 1 ELSE CHOOSE j \in found : TRUE
        row == IF created
               THEN defaults @@ [slug |-> slug, partner |-> Partner]
               ELSE WithFields(subjects[i], defaults)
    IN  /\ ipc = "idle"
        /\ Cardinality(found) <= 1
        /\ subjects' = Upsert(subjects, i, row)
        /\ last_pass' = [ kind |-> "subject", data |-> data,
                          repeat |-> (last_pass.kind = "subject" /\ last_pass.data = data),
                          created |-> created,
                          subject |-> i ]
        /\ UNCHANGED <<organizations, people, positions, programs, courses,
                       course_source, course_runs, level_types, schedule>>
        /\ UNCHANGED pagerVars

\* The sponsor nodes of the marketing site: one sponsor, with and without
\* a body.
SponsorNodes ==
    { [ uuid |-> "o-7", url |-> "https://www.edx.org/sponsorer/acme",
        title |-> "Acme", body |-> b,
        field_sponsorer_image |-> [url |-> "https://img/acme.png"] ] :
        b \in { [value |-> "<p>Acme sponsors.</p>"], NoField } }

\* The defaults of SponsorMarketingSiteDataLoader.process_node: the body
\* is cleaned only when there is one.
SponsorDefaults(data) ==
    [ key |-> Slug(data.url),
      name |-> data.title,
      description |-> IF Truthy(data.body.value) THEN CleanHtml(data.body.value)
                      ELSE data.body.value,
      logo_image_url |-> data.field_sponsorer_image.url ]

\* Organization.objects.update_or_create(uuid=uuid, partner=self.partner, ...)
MatchingSponsors(uuid) ==
    { i \in DOMAIN organizations :
        organizations[i].uuid = uuid /\ organizations[i].partner = Partner }

\* SponsorMarketingSiteDataLoader.process_node
SponsorProcessNode(data) ==
    LET uuid == data.uuid
        defaults == SponsorDefaults(data)
        found == MatchingSponsors(uuid)
        created == found = {}
        i == IF created THEN Len(organizations) + 1 ELSE CHOOSE j \in found : TRUE
        row == IF created
               THEN defaults @@ [ uuid |-> uuid, partner |-> Partner,
                                  banner_image_url |-> NULL,
                                  marketing_url_path |-> NULL, tags |-> {} ]
               ELSE WithFields(organizations[i], defaults)
    IN  /\ ipc = "idle"
        /\ Cardinality(found) <= 1
        /\ organizations' = Upsert(organizations, i, row)
        /\ last_pass' = [ kind |-> "sponsorer", data |-> data,
                          repeat |-> (last_pass.kind = "sponsorer" /\ last_pass.data = data),
                          created |-> created,
                          sponsor |-> i ]
        /\ UNCHANGED <<subjects, people, positions, programs, courses,
                       course_source, course_runs, level_types, schedule>>
        /\ UNCHANGED pagerVars


(***************************************************************************)
(* The six loaders run against one catalog, their nodes in any order.       *)
(***************************************************************************)

\* The nodes each loader is handed here: a few of each type.
PipelineCourseNodes ==
    { d \in CourseNodes :
        /\ d.field_course_id = "course-v1:MITx+6.00x+2016"
        /\ d.status = "1"
        /\ d.field_course_code = ContentA.field_course_code
        /\ d.field_course_subject \in {Refs0.field_course_subject,
                                       Refs1.field_course_subject} }

PipelinePersonNodes ==
    { d \in PersonNodes :
        /\ d.uuid = "a1b2"
        /\ d.url = ProfileA.url
        /\ \/ d.field_person_positions = <<>>
           \/ /\ Len(d.field_person_positions) = 1
              /\ DOMAIN d.field_person_positions[1]
                   = {"field_person_position_tiltes", "field_person_position_org_link"}
              /\ d.field_person_positions[1].field_person_position_tiltes = <<"Professor">>
              /\ d.field_person_positions[1].field_person_position_org_link.title
                   = "harvardx" }

PipelineSchoolNodes ==
    { d \in SchoolNodes :
        /\ d.content.field_school_name = "MIT"
        /\ DOMAIN d.flags = {"field_school_is_founder", "field_school_is_partner"}
        /\ d.flags.field_school_is_partner }

PipelineXSeriesNodes ==
    { d \in XSeriesNodes :
        /\ Slug(d.url) \in {"astrophysics", "unlisted"}
        /\ d.field_xseries_subtitle_short # NULL
        /\ StripOverview(CleanHtml(d.body.value)) = "Learn astrophysics." }

InitPipeline ==
    /\ PagerIdle
    /\ organizations = <<>>
    /\ subjects = <<>>
    /\ people = <<>>
    /\ positions = <<>>
    /\ programs = << StoredProgram("astrophysics", OtherPartner),
                     StoredProgram("astrophysics", Partner) >>
    /\ courses = <<>>
    /\ course_source = <<>>
    /\ course_runs = <<>>
    /\ level_types = {}
    /\ schedule = NoSchedule
    /\ last_pass = [kind |-> "none"]

NextPipeline ==
    \/ \E data \in PipelineCourseNodes : CourseProcessNode(data)
    \/ \E data \in PipelinePersonNodes : PersonProcessNode(data)
    \/ \E data \in PipelineSchoolNodes : SchoolProcessNode(data)
    \/ \E data \in PipelineXSeriesNodes : XSeriesProcessNode(data)
    \/ \E data \in SubjectNodes : SubjectProcessNode(data)
    \/ \E data \in SponsorNodes : SponsorProcessNode(data)

SpecPipeline == InitPipeline /\ [][NextPipeline]_vars

\* C20: no pass of any loader removes a Course, CourseRun, Person,
\* Position, Organization, Subject or Program: every row that exists
\* before a step exists after it.
C20_EntitiesOnlyGrow ==
    [][ /\ DOMAIN courses \subseteq DOMAIN courses'
        /\ DOMAIN course_runs \subseteq DOMAIN course_runs'
        /\ DOMAIN people \subseteq DOMAIN people'
        /\ DOMAIN positions \subseteq DOMAIN positions'
        /\ DOMAIN organizations \subseteq DOMAIN organizations'
        /\ DOMAIN subjects \subseteq DOMAIN subjects'
        /\ DOMAIN programs \subseteq DOMAIN programs' ]_vars

\* Every table holds rows, and a course pass has just unlinked the Course
\* from the Subject and the Organization it was linked to; both are still
\* stored.
C20_Witness ==
    /\ last_pass.kind = "course"
    /\ last_pass.outcome = "ok"
    /\ last_pass.subjects_were # {}
    /\ courses[last_pass.course].subjects = {}
    /\ courses[last_pass.course].authoring_organizations = {}
    /\ Len(subjects) = 1
    /\ Len(organizations) = 2
    /\ Len(people) = 1
    /\ Len(positions) = 1
    /\ Len(course_runs) = 1
    /\ Len(programs) = 2

\* C24: processing is idempotent per node: when a loader is handed the node
\* it was handed in the pass just before, the second pass leaves every
\* table, every field and every relation set as the first pass left them.
C24_IdempotentPerNode ==
    [][ last_pass'.repeat
        => /\ courses' = courses
           /\ course_runs' = course_runs
           /\ people' = people
           /\ positions' = positions
           /\ organizations' = organizations
           /\ subjects' = subjects
           /\ programs' = programs
           /\ level_types' = level_types ]_vars

\* A person node with a position has been processed twice in a row: the
\* second pass found the Person and the Position the first one wrote.
C24_Witness ==
    /\ last_pass.kind = "person"
    /\ last_pass.repeat
    /\ ~last_pass.created
    /\ last_pass.had_position
    /\ last_pass.position = "written"
    /\ people[last_pass.person].slug = Slug(last_pass.data.url)
    /\ Len(courses) = 1
    /\ Len(organizations) = 1

====
